---- MODULE Spec2Model ----
(***************************************************************************)
(* Voice-to-text plugin: the voice message pipeline of main.py and the     *)
(* probabilistic reply service of services/probabilistic_reply_service.py. *)
(*                                                                         *)
(* Probabilities and random draws are fixed-point numbers in tenths        *)
(* (ProbScale = 1.0).  time.time() is the variable now, an integer number  *)
(* of seconds.                                                             *)
(*                                                                         *)
(* The pipeline is cut at its awaits: one action per collaborator call.    *)
(* The decorator of main.py line 84 (utils/decorators.py) is taken to hand *)
(* the async generator through unchanged.  A voice event carries one       *)
(* Record component.                                                       *)
(***************************************************************************)
EXTENDS Integers, Sequences, FiniteSets, TLC

\* ---------------------------------------------------------------- bounds
\* instants 0..EarlyTimes and DefaultMaxAge-1..DefaultMaxAge+LateTimes
EarlyTimes == 1
LateTimes == 2

\* ------------------------------------------------------ program constants
\* 1.0 in tenths
ProbScale == 10
\* default of Reply_Probability, 0.3
DefaultProbability == 3
\* default of max_age_seconds
DefaultMaxAge == 3600

Absent == -1
EmptySid == ""
Sessions == {"s1", "s2"}
AllSids == Sessions \cup {EmptySid}
Procs == {1, 2}

Times == (0..EarlyTimes) \cup ((DefaultMaxAge - 1)..(DefaultMaxAge + LateTimes))
MaxAges == {1, DefaultMaxAge}

\* values of Chat_Reply.Reply_Probability: a number (in tenths), a missing
\* key, or a value float() rejects
ProbInputs ==
  [kind : {"num"}, v : {-2, 0, 3, 10, 15}]
    \cup [kind : {"missing", "bad"}, v : {0}]
Configs == [enabled : BOOLEAN, prob : ProbInputs]
\* random.random() draws of [0, 1), in tenths
Draws == 0..(ProbScale - 1)

Min(a, b) == IF a < b THEN a ELSE b
Max(a, b) == IF a > b THEN a ELSE b

\* ------------------------------------------- ProbabilisticReplyService
\* float(chat_reply_config.get("Reply_Probability", 0.3)) raises ValueError
FloatRaises(pin) == pin.kind = "bad"

FloatOf(pin) == IF pin.kind = "missing" THEN DefaultProbability ELSE pin.v

ClampMut(x) == Min(ProbScale, x)

\* max(0.0, min(1.0, x))
Clamp(x) == Max(0, Min(ProbScale, x))

\* _load_config: enabled is assigned before float() can raise
LoadConfig(cfg, oldProb) ==
  [enabled |-> cfg.enabled,
   prob    |-> IF FloatRaises(cfg.prob) THEN oldProb ELSE Clamp(FloatOf(cfg.prob)),
   raised  |-> FloatRaises(cfg.prob)]

DrawRepliesMut(r, p) == r < p

\* the comparison of should_generate_reply
DrawReplies(r, p) == r <= p

\* return value of should_generate_reply
ShouldReplyRet(en, p, r) == IF ~en THEN TRUE ELSE DrawReplies(r, p)

TrackedMut(sid) == TRUE

\* should_generate_reply tracks the session (if session_id:)
Tracked(sid) == sid # EmptySid

\* does this call reach the bookkeeping of lines 62-64
Touches(en) == en

\* _last_decision_time after should_generate_reply
ShouldReplyStore(en, store, sid, t) ==
  IF Touches(en) /\ Tracked(sid) THEN [store EXCEPT ![sid] = t] ELSE store

ExpiredMut(t, last, maxAge) == t - last >= maxAge

ExpiredClock(t, last, maxAge) == t > maxAge

\* current_time - last_time > max_age_seconds
Expired(t, last, maxAge) == t - last > maxAge

CleanupOldSessionsAll(store, t, maxAge) ==
  IF \E s \in AllSids : store[s] # Absent /\ Expired(t, store[s], maxAge)
    THEN [s \in AllSids |-> Absent] ELSE store

\* _last_decision_time after cleanup_old_sessions
CleanupOldSessions(store, t, maxAge) ==
  [s \in AllSids |->
     IF store[s] # Absent /\ Expired(t, store[s], maxAge) THEN Absent ELSE store[s]]

\* get_session_statistics(session_id) at time t
GetSessionStatistics(store, sid, t) ==
  IF store[sid] = Absent
    THEN [found |-> FALSE, last |-> Absent, since |-> 0]
    ELSE [found |-> TRUE, last |-> store[sid], since |-> t - store[sid]]

VARIABLES
  config, enabled, reply_probability, last_decision_time,  \* the service
  now,                                                     \* time.time()
  lastOp,                                                  \* the last service call and its result
  enable_chat_reply,                 \* Chat_Reply.Enable_Chat_Reply
  enable_group_voice_recognition,    \* permission_service flags
  enable_group_voice_reply,
  pc, event,                         \* per invocation: position, event
  processed_file_path, transcribed_text,
  conversation_id, current_history,  \* locals of _record_voice_to_history
  calls, outcome,                    \* per invocation: calls made, how it ended
  temp_files,                        \* files held by voice_processing_service
  curr_cid, conversations,           \* the conversation manager
  active                             \* the invocations that can start

svcVars == <<config, enabled, reply_probability, last_decision_time>>
plugVars == <<enable_chat_reply, enable_group_voice_recognition,
              enable_group_voice_reply>>
procVars == <<pc, event, processed_file_path, transcribed_text,
              conversation_id, current_history, calls, outcome>>
storeVars == <<temp_files, curr_cid, conversations, active>>
vars == <<svcVars, now, lastOp, plugVars, procVars, storeVars>>

NoOp ==
  [op |-> "none", sid |-> EmptySid, r |-> 0, ret |-> FALSE, time |-> 0,
   maxAge |-> 0, enabled |-> FALSE, prob |-> 0,
   before |-> [s \in AllSids |-> Absent], raised |-> FALSE]

\* __init__ of the service: an empty map and a loaded configuration
InitService ==
  /\ config \in {c \in Configs : ~FloatRaises(c.prob)}
  /\ enabled = LoadConfig(config, 0).enabled
  /\ reply_probability = LoadConfig(config, 0).prob
  /\ last_decision_time = [s \in AllSids |-> Absent]
  /\ now = 0
  /\ lastOp = NoOp

\* ------------------------------------------------------ VoiceToTextPlugin
Events ==
  [type : {"direct"}, session : Sessions, allowed : {TRUE}]
    \cup [type : {"group"}, session : Sessions, allowed : BOOLEAN]
NoEvent == [type |-> "direct", session |-> "s1", allowed |-> TRUE]

NoCalls ==
  [perm |-> 0, file |-> 0, stt |-> 0, record |-> 0, histRead |-> 0,
   histWrite |-> 0, append |-> 0, stop |-> 0, should |-> 0, llm |-> 0,
   cleanup |-> 0, sweep |-> 0, verdict |-> "none", recSession |-> EmptySid,
   sttRes |-> "uncalled", recordRaised |-> FALSE, raised |-> FALSE,
   fileRes |-> "uncalled", emitRes |-> "uncalled", escaped |-> FALSE,
   touchTime |-> Absent, sweepTime |-> Absent, stages |-> <<>>]

\* what process_voice_file, transcribe_audio and the reply stage can do
FileResults == {"path", "none", "error"}
SttResults == {"text", "empty", "none", "stt_error", "error"}
EmitResults == {"request", "no_provider", "error"}
\* what the statements of the gate and of the reply conditions can do
GateResults == {"ok", "VoiceToTextError", "Exception"}

\* permission_service.can_process_voice
CanProcessVoice(ev) ==
  \/ ev.type = "direct"
  \/ ev.type = "group" /\ enable_group_voice_recognition /\ ev.allowed

\* permission_service.can_generate_reply
CanGenerateReply(ev) ==
  \/ ev.type = "direct"
  \/ ev.type = "group" /\ enable_group_voice_reply = "True"

PermissionPassesMut(ev) == TRUE

\* on_message: if await self.permission_service.can_process_voice(event)
PermissionPasses(ev) == CanProcessVoice(ev)

\* if not processed_file_path: return
FileUsable(res) == res = "path"

TranscribeCaughtMut(res) == res = "stt_error"

\* _transcribe_voice: except STTProviderError / except Exception
TranscribeCaught(res) == res \in {"stt_error", "error"}

\* what _transcribe_voice returns
TranscribeReturn(res) ==
  IF res = "text" THEN "hello" ELSE IF res = "empty" THEN "" ELSE "None"

\* not x, for a str or None
Falsy(x) == x \in {"", "None"}

AfterTranscribeMut(ev) ==
  IF ev.type = "group" THEN "rec_getcid" ELSE "groupgate"

\* line 104: the transcript is recorded whatever the event and the flags
AfterTranscribe(ev) == "rec_getcid"

GroupGateStopsMut(ev) ==
  /\ ev.type = "group"
  /\ enable_group_voice_recognition
  /\ enable_group_voice_reply = "True"
  /\ CanProcessVoice(ev)

GroupGateStopsLoose(ev) ==
  /\ ev.type = "group"
  /\ enable_group_voice_recognition
  /\ enable_group_voice_reply \in {"False", "None"}
  /\ CanProcessVoice(ev)

\* the condition of lines 109-112
GroupGateStops(ev) ==
  /\ ev.type = "group"
  /\ enable_group_voice_recognition
  /\ enable_group_voice_reply = "False"
  /\ CanProcessVoice(ev)

ReplyAttemptedMut(ev) == enable_chat_reply

\* the condition of line 120
ReplyAttempted(ev) == enable_chat_reply /\ CanGenerateReply(ev)

ProviderMissingMut(res) == FALSE

\* _generate_intelligent_reply: if not llm_provider: return
ProviderMissing(res) == res = "no_provider"

OuterCatchesMut(res) == res = "VoiceToTextError"

\* except VoiceToTextError / except Exception of _process_voice_message
OuterCatches(res) == res \in {"VoiceToTextError", "Exception"}

AfterExitMut(oc) == IF oc = "error" THEN "done" ELSE "cleanup"

AfterExitNoReturn(oc) ==
  IF oc = "recorded-only" THEN "replydecision" ELSE "cleanup"

\* try ... finally: every way out of the try block runs _cleanup_resources
AfterExit(oc) == "cleanup"

\* voice_processing_service.cleanup_resources()
CleanupResources(files) == {}

InitPlugin ==
  /\ enable_chat_reply \in BOOLEAN
  /\ enable_group_voice_recognition \in BOOLEAN
  /\ enable_group_voice_reply \in {"True", "False", "None"}
  /\ pc = [p \in Procs |-> "idle"]
  /\ event = [p \in Procs |-> NoEvent]
  /\ processed_file_path = [p \in Procs |-> FALSE]
  /\ transcribed_text = [p \in Procs |-> "None"]
  /\ conversation_id = [p \in Procs |-> 0]
  /\ current_history = [p \in Procs |-> <<>>]
  /\ calls = [p \in Procs |-> NoCalls]
  /\ outcome = [p \in Procs |-> "none"]
  /\ temp_files = {}
  /\ curr_cid = [s \in Sessions |-> IF s = "s1" THEN 1 ELSE 0]
  /\ conversations = <<[sid |-> "s1", history |-> <<0>>]>>

\* the clock moves forward
Tick ==
  /\ \E t \in Times : t > now /\ now' = t
  /\ UNCHANGED <<svcVars, lastOp, plugVars, procVars, storeVars>>

\* should_generate_reply(session_id)
ShouldGenerateReply(sid, r) ==
  /\ last_decision_time' =
       ShouldReplyStore(enabled, last_decision_time, sid, now)
  /\ lastOp' = [NoOp EXCEPT !.op = "should_reply", !.sid = sid, !.r = r,
                  !.ret = ShouldReplyRet(enabled, reply_probability, r),
                  !.time = now, !.enabled = enabled,
                  !.prob = reply_probability, !.before = last_decision_time]
  /\ UNCHANGED <<config, enabled, reply_probability, now,
                 plugVars, procVars, storeVars>>

\* update_config(new_config)
UpdateConfig(cfg) ==
  LET l == LoadConfig(cfg, reply_probability) IN
  /\ config' = cfg
  /\ enabled' = l.enabled
  /\ reply_probability' = l.prob
  /\ lastOp' = [NoOp EXCEPT !.op = "update_config", !.time = now,
                  !.enabled = enabled, !.prob = reply_probability,
                  !.before = last_decision_time, !.raised = l.raised]
  /\ UNCHANGED <<last_decision_time, now, plugVars, procVars, storeVars>>

\* cleanup_old_sessions(max_age_seconds)
Sweep(maxAge) ==
  /\ last_decision_time' = CleanupOldSessions(last_decision_time, now, maxAge)
  /\ lastOp' = [NoOp EXCEPT !.op = "sweep", !.time = now, !.maxAge = maxAge,
                  !.enabled = enabled, !.prob = reply_probability,
                  !.before = last_decision_time]
  /\ UNCHANGED <<config, enabled, reply_probability, now,
                 plugVars, procVars, storeVars>>


\* ------------------------------------------------ the voice pipeline
Bump(p, f) == [calls EXCEPT ![p][f] = @ + 1]

\* the stage st has started in invocation p
Staged(c, p, st) == [c EXCEPT ![p].stages = Append(@, st)]

\* an error raised in the try block outside the helpers' own handlers
Raised(c, p, res) ==
  [c EXCEPT ![p].raised = TRUE, ![p].escaped = ~OuterCatches(res)]

\* leave the try block of _process_voice_message with outcome oc
Exit(p, oc) ==
  /\ pc' = [pc EXCEPT ![p] = AfterExit(oc)]
  /\ outcome' = [outcome EXCEPT ![p] = oc]

\* on_message, for an event with one Record component
Start(p, ev) ==
  /\ pc[p] = "idle"
  /\ p \in active
  /\ event' = [event EXCEPT ![p] = ev]
  /\ calls' = Bump(p, "perm")
  /\ IF PermissionPasses(ev)
       THEN pc' = [pc EXCEPT ![p] = "fileprep"] /\ UNCHANGED outcome
       ELSE /\ pc' = [pc EXCEPT ![p] = "done"]
            /\ outcome' = [outcome EXCEPT ![p] = "permission-denied"]
  /\ UNCHANGED <<svcVars, now, lastOp, plugVars, processed_file_path,
                 transcribed_text, conversation_id, current_history, storeVars>>

\* 1. _process_voice_file
FilePrep(p, res) ==
  /\ pc[p] = "fileprep"
  /\ calls' = [Staged(Bump(p, "file"), p, "FilePrep") EXCEPT ![p].fileRes = res]
  /\ processed_file_path' = [processed_file_path EXCEPT ![p] = (res = "path")]
  /\ temp_files' = IF res = "path" THEN temp_files \cup {p} ELSE temp_files
  /\ IF FileUsable(res)
       THEN pc' = [pc EXCEPT ![p] = "transcribe"] /\ UNCHANGED outcome
       ELSE Exit(p, "file-error")
  /\ UNCHANGED <<svcVars, now, lastOp, plugVars, event, transcribed_text,
                 conversation_id, current_history, curr_cid, conversations,
                 active>>

\* 2. _transcribe_voice
Transcribe(p, res) ==
  /\ pc[p] = "transcribe"
  /\ IF res \in {"stt_error", "error"} /\ ~TranscribeCaught(res)
       THEN /\ calls' = [Staged(Bump(p, "stt"), p, "Transcribe") EXCEPT
                           ![p].raised = TRUE, ![p].sttRes = res]
            /\ Exit(p, "error")
            /\ UNCHANGED transcribed_text
       ELSE /\ calls' = [Staged(Bump(p, "stt"), p, "Transcribe") EXCEPT
                           ![p].sttRes = res]
            /\ transcribed_text' =
                 [transcribed_text EXCEPT ![p] = TranscribeReturn(res)]
            /\ IF Falsy(TranscribeReturn(res))
                 THEN Exit(p, "transcription-empty")
                 ELSE /\ pc' = [pc EXCEPT ![p] = AfterTranscribe(event[p])]
                      /\ UNCHANGED outcome
  /\ UNCHANGED <<svcVars, now, lastOp, plugVars, event, processed_file_path,
                 conversation_id, current_history, storeVars>>

\* variant: an error of the history store leaves _record_voice_to_history
\* and reaches the finally of _process_voice_message
AfterRecordMut(ok) == IF ok THEN "groupgate" ELSE "cleanup"

\* where the pipeline resumes after _record_voice_to_history: the except of
\* lines 223-224 swallows every Exception, so line 105 follows either way
AfterRecord(ok) == "groupgate"

\* _record_voice_to_history raised: logged, the pipeline goes on
RecordFails(p, c) ==
  /\ calls' = [c EXCEPT ![p].recordRaised = TRUE]
  /\ pc' = [pc EXCEPT ![p] = AfterRecord(FALSE)]

\* 3. _record_voice_to_history: get_curr_conversation_id
RecGetCid(p, ok) ==
  /\ pc[p] = "rec_getcid"
  /\ LET c == [Staged(Bump(p, "record"), p, "Record") EXCEPT
                  ![p].recSession = event[p].session,
                  ![p].histRead = @ + 1] IN
     IF ok
       THEN /\ calls' = c
            /\ conversation_id' =
                 [conversation_id EXCEPT ![p] = curr_cid[event[p].session]]
            /\ pc' = [pc EXCEPT ![p] =
                 IF curr_cid[event[p].session] = 0 THEN "rec_newconv"
                                                   ELSE "rec_getconv"]
       ELSE RecordFails(p, c) /\ UNCHANGED conversation_id
  /\ UNCHANGED <<svcVars, now, lastOp, plugVars, event, processed_file_path,
                 transcribed_text, current_history, outcome, storeVars>>

\* new_conversation, when the session has no current conversation
RecNewConv(p, ok) ==
  /\ pc[p] = "rec_newconv"
  /\ IF ok
       THEN /\ conversations' = Append(conversations,
                 [sid |-> event[p].session, history |-> <<>>])
            /\ curr_cid' = [curr_cid EXCEPT ![event[p].session] =
                 Len(conversations) + 1]
            /\ conversation_id' =
                 [conversation_id EXCEPT ![p] = Len(conversations) + 1]
            /\ calls' = Bump(p, "histWrite")
            /\ pc' = [pc EXCEPT ![p] = "rec_getconv"]
       ELSE /\ RecordFails(p, calls)
            /\ UNCHANGED <<conversations, curr_cid, conversation_id>>
  /\ UNCHANGED <<svcVars, now, lastOp, plugVars, event, processed_file_path,
                 transcribed_text, current_history, outcome, temp_files,
                 active>>

\* get_conversation, json.loads and current_history.append(voice_message)
RecGetConv(p, ok) ==
  /\ pc[p] = "rec_getconv"
  /\ IF ok
       THEN /\ current_history' = [current_history EXCEPT ![p] =
                 Append(conversations[conversation_id[p]].history, p)]
            /\ calls' = Bump(p, "histRead")
            /\ pc' = [pc EXCEPT ![p] = "rec_update"]
       ELSE RecordFails(p, Bump(p, "histRead")) /\ UNCHANGED current_history
  /\ UNCHANGED <<svcVars, now, lastOp, plugVars, event, processed_file_path,
                 transcribed_text, conversation_id, outcome, storeVars>>

\* update_conversation(unified_msg_origin, conversation_id, current_history)
RecUpdate(p, ok) ==
  /\ pc[p] = "rec_update"
  /\ IF ok
       THEN /\ conversations' = [conversations EXCEPT
                 ![conversation_id[p]].history = current_history[p]]
            /\ calls' = [Bump(p, "histWrite") EXCEPT ![p].append = @ + 1]
            /\ pc' = [pc EXCEPT ![p] = AfterRecord(TRUE)]
       ELSE RecordFails(p, Bump(p, "histWrite")) /\ UNCHANGED conversations
  /\ UNCHANGED <<svcVars, now, lastOp, plugVars, event, processed_file_path,
                 transcribed_text, conversation_id, current_history, outcome,
                 temp_files, curr_cid, active>>

\* 4. the group gate of lines 105-117
GroupGate(p, res) ==
  /\ pc[p] = "groupgate"
  /\ IF res # "ok"
       THEN /\ calls' = Raised(Staged(calls, p, "GroupGate"), p, res)
            /\ Exit(p, "error")
       ELSE IF GroupGateStops(event[p])
         THEN /\ calls' = [Staged(Bump(p, "perm"), p, "GroupGate") EXCEPT
                             ![p].stop = @ + 1]
              /\ Exit(p, "recorded-only")
         ELSE /\ pc' = [pc EXCEPT ![p] = "replydecision"]
              /\ calls' = Staged(calls, p, "GroupGate")
              /\ UNCHANGED outcome
  /\ UNCHANGED <<svcVars, now, lastOp, plugVars, event, processed_file_path,
                 transcribed_text, conversation_id, current_history, storeVars>>

\* 5. lines 120-127: the reply conditions and should_generate_reply
ReplyDecision(p, res, r) ==
  /\ pc[p] = "replydecision"
  /\ IF res # "ok"
       THEN /\ calls' = Raised(Staged(calls, p, "ReplyDecision"), p, res)
            /\ Exit(p, "error")
            /\ UNCHANGED last_decision_time
       ELSE IF ~ReplyAttempted(event[p])
         THEN /\ Exit(p, "reply-not-attempted")
              /\ calls' = Staged(calls, p, "ReplyDecision")
              /\ UNCHANGED last_decision_time
         ELSE LET v == ShouldReplyRet(enabled, reply_probability, r)
                  st == ShouldReplyStore(enabled, last_decision_time,
                          event[p].session, now)
              IN
              /\ last_decision_time' = st
              /\ calls' = [Staged(Bump(p, "should"), p, "ReplyDecision") EXCEPT
                   ![p].verdict = IF v THEN "true" ELSE "false",
                   ![p].touchTime =
                     IF Touches(enabled) /\ Tracked(event[p].session)
                       THEN now ELSE Absent]
              /\ IF v THEN pc' = [pc EXCEPT ![p] = "emit"] /\ UNCHANGED outcome
                      ELSE Exit(p, "reply-skipped")
  /\ UNCHANGED <<config, enabled, reply_probability, now, lastOp, plugVars,
                 event, processed_file_path, transcribed_text, conversation_id,
                 current_history, storeVars>>

\* _generate_intelligent_reply
ReplyEmit(p, res) ==
  /\ pc[p] = "emit"
  /\ IF ProviderMissing(res)
       THEN /\ calls' = [Staged(calls, p, "ReplyEmit") EXCEPT ![p].emitRes = res]
            /\ Exit(p, "error")
       ELSE IF res = "error"
         THEN /\ calls' = [Staged(Bump(p, "histRead"), p, "ReplyEmit") EXCEPT
                             ![p].raised = TRUE, ![p].emitRes = res]
              /\ Exit(p, "error")
         ELSE /\ calls' = [Staged(Bump(p, "histRead"), p, "ReplyEmit") EXCEPT
                             ![p].llm = @ + 1, ![p].emitRes = res]
              /\ Exit(p, "reply-emitted")
  /\ UNCHANGED <<svcVars, now, lastOp, plugVars, event, processed_file_path,
                 transcribed_text, conversation_id, current_history, storeVars>>

\* _cleanup_resources
Cleanup(p, ok) ==
  /\ pc[p] = "cleanup"
  /\ pc' = [pc EXCEPT ![p] = "done"]
  /\ IF ok
       THEN /\ temp_files' = CleanupResources(temp_files)
            /\ last_decision_time' =
                 CleanupOldSessions(last_decision_time, now, DefaultMaxAge)
            /\ calls' = [Staged(Bump(p, "cleanup"), p, "Cleanup") EXCEPT
                           ![p].sweep = @ + 1, ![p].sweepTime = now]
       ELSE /\ calls' = Staged(Bump(p, "cleanup"), p, "Cleanup")
            /\ UNCHANGED <<temp_files, last_decision_time>>
  /\ UNCHANGED <<config, enabled, reply_probability, now, lastOp, plugVars,
                 event, processed_file_path, transcribed_text, conversation_id,
                 current_history, outcome, curr_cid, conversations, active>>

\* ---------------------------------------------------------- specifications
\* one voice event is handled
Init == InitService /\ InitPlugin /\ active = {1}

DoStart == \E p \in Procs, ev \in Events : Start(p, ev)
DoFilePrep == \E p \in Procs, res \in FileResults : FilePrep(p, res)
DoTranscribe == \E p \in Procs, res \in SttResults : Transcribe(p, res)
DoRecGetCid == \E p \in Procs, ok \in BOOLEAN : RecGetCid(p, ok)
DoRecNewConv == \E p \in Procs, ok \in BOOLEAN : RecNewConv(p, ok)
DoRecGetConv == \E p \in Procs, ok \in BOOLEAN : RecGetConv(p, ok)
DoRecUpdate == \E p \in Procs, ok \in BOOLEAN : RecUpdate(p, ok)
DoGroupGate == \E p \in Procs, res \in GateResults : GroupGate(p, res)
DoReplyDecision ==
  \E p \in Procs, res \in GateResults, r \in Draws : ReplyDecision(p, res, r)
DoReplyEmit == \E p \in Procs, res \in EmitResults : ReplyEmit(p, res)
DoCleanup == \E p \in Procs, ok \in BOOLEAN : Cleanup(p, ok)

Next ==
  \/ Tick
  \/ DoStart
  \/ DoFilePrep
  \/ DoTranscribe
  \/ DoRecGetCid
  \/ DoRecNewConv
  \/ DoRecGetConv
  \/ DoRecUpdate
  \/ DoGroupGate
  \/ DoReplyDecision
  \/ DoReplyEmit
  \/ DoCleanup

Spec == Init /\ [][Next]_vars

\* two voice events are handled concurrently, replies and the probabilistic
\* policy switched on
InitConc ==
  /\ InitService
  /\ InitPlugin
  /\ active = Procs
  /\ enable_chat_reply
  /\ enable_group_voice_recognition
  /\ enable_group_voice_reply = "True"
  /\ config = [enabled |-> TRUE, prob |-> [kind |-> "missing", v |-> 0]]

\* the collaborators answer without failing
OkStart == \E p \in Procs, ev \in Events : Start(p, ev)
OkFilePrep == \E p \in Procs : FilePrep(p, "path")
OkTranscribe == \E p \in Procs : Transcribe(p, "text")
OkRecGetCid == \E p \in Procs : RecGetCid(p, TRUE)
OkRecNewConv == \E p \in Procs : RecNewConv(p, TRUE)
OkRecGetConv == \E p \in Procs : RecGetConv(p, TRUE)
OkRecUpdate == \E p \in Procs : RecUpdate(p, TRUE)
OkGroupGate == \E p \in Procs : GroupGate(p, "ok")
OkReplyDecision == \E p \in Procs, r \in Draws : ReplyDecision(p, "ok", r)
OkReplyEmit == \E p \in Procs : ReplyEmit(p, "request")
OkCleanup == \E p \in Procs : Cleanup(p, TRUE)

NextConc ==
  \/ Tick
  \/ OkStart
  \/ OkFilePrep
  \/ OkTranscribe
  \/ OkRecGetCid
  \/ OkRecNewConv
  \/ OkRecGetConv
  \/ OkRecUpdate
  \/ OkGroupGate
  \/ OkReplyDecision
  \/ OkReplyEmit
  \/ OkCleanup

SpecConc == InitConc /\ [][NextConc]_vars

\* two concurrent invocations whose collaborators can fail, the clock at rest
NextFaults ==
  \/ DoStart
  \/ DoFilePrep
  \/ DoTranscribe
  \/ DoRecGetCid
  \/ DoRecNewConv
  \/ DoRecGetConv
  \/ DoRecUpdate
  \/ DoGroupGate
  \/ DoReplyDecision
  \/ DoReplyEmit
  \/ DoCleanup

SpecFaults == InitConc /\ [][NextFaults]_vars

\* the service on its own, called directly
InitEngine ==
  /\ InitService
  /\ InitPlugin
  /\ active = {}
  /\ enable_chat_reply
  /\ enable_group_voice_recognition
  /\ enable_group_voice_reply = "True"

CallShouldReply == \E sid \in AllSids, r \in Draws : ShouldGenerateReply(sid, r)
CallUpdateConfig == \E cfg \in Configs : UpdateConfig(cfg)
CallSweep == \E m \in MaxAges : Sweep(m)

NextEngine ==
  \/ Tick
  \/ CallShouldReply
  \/ CallUpdateConfig
  \/ CallSweep

SpecEngine == InitEngine /\ [][NextEngine]_vars

\* ------------------------------------------------------------ properties
Ended(p) == pc[p] \in {"cleanup", "done"}

C2_DeniedMakesNoCalls ==
  \A p \in Procs :
    (pc[p] # "idle" /\ ~CanProcessVoice(event[p])) =>
      /\ pc[p] = "done"
      /\ outcome[p] = "permission-denied"
      /\ calls[p].perm = 1
      /\ calls[p].file = 0
      /\ calls[p].stt = 0
      /\ calls[p].record = 0
      /\ calls[p].histRead = 0
      /\ calls[p].histWrite = 0
      /\ calls[p].stop = 0
      /\ calls[p].should = 0
      /\ calls[p].llm = 0

C2_Witness ==
  \E p \in Procs :
    /\ pc[p] = "done"
    /\ event[p].type = "group"
    /\ ~CanProcessVoice(event[p])
    /\ calls[p].perm = 1

\* the case of C3: a group event in record-only configuration whose file was
\* prepared and whose transcription was not empty
RecordOnlyCase(p) ==
  /\ event[p].type = "group"
  /\ processed_file_path[p]
  /\ ~Falsy(transcribed_text[p])
  /\ enable_group_voice_recognition
  /\ enable_group_voice_reply = "False"
  /\ CanProcessVoice(event[p])

\* C3 as stated: in the record-only case the invocation ends as
\* recorded-only with exactly one history append, exactly one
\* StopPropagation, and no ShouldReply call or reply request.
C3_RecordOnlyAlwaysAppends ==
  \A p \in Procs :
    (pc[p] = "done" /\ RecordOnlyCase(p)) =>
      /\ outcome[p] = "recorded-only"
      /\ calls[p].append = 1
      /\ calls[p].stop = 1
      /\ calls[p].should = 0
      /\ calls[p].llm = 0

\* C3 amended: in the record-only case ShouldReply and the reply generator
\* are never invoked and there is at most one append and one
\* StopPropagation; unless the gate itself raises, the invocation ends as
\* recorded-only with exactly one StopPropagation, and the history append
\* happens exactly once when the history store calls succeed and not at all
\* when one of them raises.
C3_RecordOnly ==
  \A p \in Procs :
    RecordOnlyCase(p) =>
      /\ calls[p].should = 0
      /\ calls[p].llm = 0
      /\ calls[p].append <= 1
      /\ calls[p].stop <= 1
      /\ (pc[p] = "done" /\ ~calls[p].raised) =>
           /\ outcome[p] = "recorded-only"
           /\ calls[p].stop = 1
           /\ calls[p].append = IF calls[p].recordRaised THEN 0 ELSE 1

C3_Witness ==
  \E p \in Procs :
    /\ pc[p] = "done"
    /\ RecordOnlyCase(p)
    /\ outcome[p] = "recorded-only"
    /\ calls[p].append = 1
    /\ calls[p].stop = 1

\* C4: when the transcription returns empty or absent text or raises a
\* provider error or any other error, the invocation ends as
\* transcription-empty through the normal return, with no history access, no
\* StopPropagation, no ShouldReply call and no reply request.
C4_TranscriptionEmpty ==
  \A p \in Procs :
    calls[p].sttRes \in {"empty", "none", "stt_error", "error"} =>
      /\ Ended(p)
      /\ outcome[p] = "transcription-empty"
      /\ ~calls[p].raised
      /\ calls[p].record = 0
      /\ calls[p].histRead = 0
      /\ calls[p].histWrite = 0
      /\ calls[p].append = 0
      /\ calls[p].stop = 0
      /\ calls[p].should = 0
      /\ calls[p].llm = 0

C4_Witness ==
  \E p \in Procs :
    /\ pc[p] = "done"
    /\ calls[p].sttRes = "error"
    /\ outcome[p] = "transcription-empty"
    /\ calls[p].cleanup = 1

\* C5: whenever the transcription yields non-empty text, the Record stage is
\* run once in that invocation, for the session of the event, whatever the
\* reply configuration, the policy and the type of the event.
C5_RecordAlwaysRuns ==
  \A p \in Procs :
    (calls[p].sttRes = "text" /\ pc[p] # "rec_getcid") =>
      /\ calls[p].record = 1
      /\ calls[p].recSession = event[p].session

C5_Witness ==
  \E p \in Procs :
    /\ pc[p] = "done"
    /\ calls[p].sttRes = "text"
    /\ event[p].type = "direct"
    /\ ~enable_chat_reply
    /\ calls[p].record = 1

\* C6 as stated: every ShouldReply call with a non-empty session sets the
\* entry of the session to the time of the call, policy enabled or not.
C6_EveryCallTouches ==
  (lastOp.op = "should_reply" /\ lastOp.sid # EmptySid) =>
    last_decision_time[lastOp.sid] = lastOp.time

\* C6 amended: a ShouldReply call with a non-empty session and the policy
\* enabled sets the entry of the session to the time of the call, whatever
\* the verdict, and changes no other entry; a call with the policy disabled
\* or with an empty session leaves the store unchanged.
C6_EnabledCallTouches ==
  lastOp.op = "should_reply" =>
    \A s \in AllSids :
      last_decision_time[s] =
        IF lastOp.enabled /\ s = lastOp.sid /\ s # EmptySid
          THEN lastOp.time ELSE lastOp.before[s]

C6_Witness ==
  /\ lastOp.op = "should_reply"
  /\ lastOp.enabled
  /\ ~lastOp.ret
  /\ lastOp.sid = "s1"
  /\ lastOp.time > 0
  /\ lastOp.before["s1"] # lastOp.time
  /\ last_decision_time["s1"] = lastOp.time

\* C7: ShouldReply returns true exactly when the policy is disabled or the
\* draw r is at most the probability: always when disabled, for every r
\* when the probability is 1.0, only for r = 0 when it is 0.0.
C7_Verdict ==
  lastOp.op = "should_reply" =>
    /\ lastOp.ret <=> (~lastOp.enabled \/ lastOp.r <= lastOp.prob)
    /\ ~lastOp.enabled => lastOp.ret
    /\ (lastOp.enabled /\ lastOp.prob = ProbScale) => lastOp.ret
    /\ (lastOp.enabled /\ lastOp.prob = 0) => (lastOp.ret <=> lastOp.r = 0)

C7_Witness ==
  /\ lastOp.op = "should_reply"
  /\ lastOp.enabled
  /\ lastOp.prob = 0
  /\ lastOp.r = 0
  /\ lastOp.ret

\* C8: after construction and any sequence of update_config and ShouldReply
\* calls the effective probability is in [0.0, 1.0]: a configured value above
\* 1 gives 1.0, one below 0 gives 0.0, one inside the range is kept; no draw
\* is compared with a value outside the range.
C8_ProbabilityInRange ==
  /\ reply_probability >= 0
  /\ reply_probability <= ProbScale
  /\ lastOp.prob >= 0
  /\ lastOp.prob <= ProbScale
  /\ config.prob.kind = "num" =>
       reply_probability =
         IF config.prob.v > ProbScale THEN ProbScale
         ELSE IF config.prob.v < 0 THEN 0 ELSE config.prob.v

C8_Witness ==
  /\ lastOp.op = "should_reply"
  /\ lastOp.enabled
  /\ config.prob.kind = "num"
  /\ config.prob.v < 0
  /\ lastOp.prob = 0
  /\ reply_probability = 0

\* C9: a sweep at time now with maxAge removes exactly the entries with
\* now - lastDecisionAt > maxAge and leaves the others as they were: an
\* entry of age maxAge + 1 goes, one of age maxAge - 1 or exactly maxAge
\* stays.
C9_SweepExact ==
  lastOp.op = "sweep" =>
    \A s \in AllSids :
      last_decision_time[s] =
        IF lastOp.before[s] # Absent
             /\ lastOp.time - lastOp.before[s] > lastOp.maxAge
          THEN Absent ELSE lastOp.before[s]

C9_Witness ==
  /\ lastOp.op = "sweep"
  /\ lastOp.maxAge = DefaultMaxAge
  /\ lastOp.before["s1"] # Absent
  /\ lastOp.time - lastOp.before["s1"] = DefaultMaxAge + 1
  /\ last_decision_time["s1"] = Absent
  /\ lastOp.before["s2"] # Absent
  /\ lastOp.time - lastOp.before["s2"] = DefaultMaxAge
  /\ last_decision_time["s2"] = lastOp.before["s2"]

\* C10: a reply request is made only if Enable_Chat_Reply is true,
\* CanGenerateReply holds, the group gate did not stop the run and
\* ShouldReply was called and returned true; when ShouldReply returns false
\* the invocation ends as reply-skipped without a reply request.
C10_ReplyOnlyWhenDecided ==
  \A p \in Procs :
    /\ calls[p].llm >= 1 =>
         /\ enable_chat_reply
         /\ CanGenerateReply(event[p])
         /\ calls[p].stop = 0
         /\ calls[p].should = 1
         /\ calls[p].verdict = "true"
    /\ calls[p].verdict = "false" =>
         /\ calls[p].llm = 0
         /\ Ended(p)
         /\ outcome[p] = "reply-skipped"

C10_Witness ==
  \E p \in Procs :
    /\ pc[p] = "done"
    /\ event[p].type = "group"
    /\ calls[p].llm = 1
    /\ calls[p].verdict = "true"
    /\ outcome[p] = "reply-emitted"

\* C11: update_config replaces the policy atomically: after the call has
\* returned or raised, the pair (enabled, probability) is either the old
\* policy or the new one with its probability clamped, never enabled from
\* the new configuration with the probability of the old one.
C11_ReloadAtomic ==
  lastOp.op = "update_config" =>
    \/ /\ enabled = lastOp.enabled
       /\ reply_probability = lastOp.prob
    \/ /\ ~FloatRaises(config.prob)
       /\ enabled = config.enabled
       /\ reply_probability = Clamp(FloatOf(config.prob))

\* the entries of a history
Entries(h) == {h[i] : i \in 1..Len(h)}

\* C12: no history entry is lost under concurrency: the entry that was in
\* the conversation of s1 from the start stays first in it, and once the
\* Record stage of an invocation has completed with every history-store call
\* succeeding, its voice entry is in a conversation of the event's session.
C12_NoLostEntry ==
  /\ Len(conversations[1].history) >= 1
  /\ conversations[1].history[1] = 0
  /\ \A p \in Procs :
       calls[p].append = 1 =>
         \E c \in 1..Len(conversations) :
           /\ conversations[c].sid = event[p].session
           /\ p \in Entries(conversations[c].history)

\* invocation p is between FilePrep and its own Cleanup, holding a file
HoldsFile(p) ==
  /\ processed_file_path[p]
  /\ pc[p] \in {"transcribe", "rec_getcid", "rec_newconv", "rec_getconv",
                "rec_update", "groupgate", "replydecision", "emit", "cleanup"}

\* C13: the temporary file of an invocation is released by the Cleanup of
\* that invocation and by no other: while the invocation is between FilePrep
\* and its own Cleanup the file is still there, and after its Cleanup it is
\* released.
C13_FileOwnedByInvocation ==
  \A p \in Procs :
    /\ HoldsFile(p) => p \in temp_files
    /\ (pc[p] = "done" /\ calls[p].sweep = 1) => p \notin temp_files

\* the place of a stage in the order of section 4.4
Rank(st) ==
  CASE st = "FilePrep" -> 1
    [] st = "Transcribe" -> 2
    [] st = "Record" -> 3
    [] st = "GroupGate" -> 4
    [] st = "ReplyDecision" -> 5
    [] st = "ReplyEmit" -> 6
    [] st = "Cleanup" -> 7

\* the stages of p run so far are a prefix of the order, each once, with
\* Cleanup, if it ran, last
StagesInOrder(p) ==
  LET st == calls[p].stages IN
  \A i \in 1..Len(st) :
    IF st[i] = "Cleanup" THEN i = Len(st) ELSE Rank(st[i]) = i

\* once a stage has ended the run of p, the only stage that still starts
\* is Cleanup
OnlyCleanupAfterEnd(p) ==
  outcome[p] # "none" =>
    \/ calls'[p].stages = calls[p].stages
    \/ calls'[p].stages = Append(calls[p].stages, "Cleanup")

\* C14: within one invocation the stages run strictly in the order FilePrep,
\* Transcribe, Record, GroupGate, ReplyDecision, ReplyEmit, Cleanup: none
\* starts before the earlier ones, none runs twice, and after a stage has
\* ended the run only Cleanup follows.
C14_StageOrder ==
  /\ [](\A p \in Procs : StagesInOrder(p))
  /\ [][\A p \in Procs : OnlyCleanupAfterEnd(p)]_vars

C14_Witness ==
  \E p \in Procs :
    calls[p].stages = <<"FilePrep", "Transcribe", "Record", "GroupGate",
                        "ReplyDecision", "ReplyEmit", "Cleanup">>

\* a stage of invocation p has raised an error
ErrorSeen(p) ==
  \/ calls[p].fileRes = "error"
  \/ calls[p].sttRes \in {"stt_error", "error"}
  \/ calls[p].recordRaised
  \/ calls[p].raised

\* a step of invocation p leaves the other invocations as they were
StepIsLocal(p) ==
  calls'[p] # calls[p] =>
    \A q \in Procs \ {p} :
      /\ pc'[q] = pc[q]
      /\ outcome'[q] = outcome[q]
      /\ calls'[q] = calls[q]
      /\ transcribed_text'[q] = transcribed_text[q]

\* C15: an error raised by a stage is caught inside the invocation: it does
\* not reach the caller of the message handler, Cleanup still runs in that
\* invocation, and the position, calls and outcome of every other running
\* invocation stay as they were.
C15_FailureIsolation ==
  /\ [](\A p \in Procs :
          ErrorSeen(p) =>
            /\ ~calls[p].escaped
            /\ pc[p] = "done" => calls[p].cleanup = 1)
  /\ [][\A p \in Procs : StepIsLocal(p)]_vars

C15_Witness ==
  \E p \in Procs, q \in Procs :
    /\ p # q
    /\ pc[p] = "done"
    /\ calls[p].raised
    /\ "GroupGate" \in Entries(calls[p].stages)
    /\ calls[p].cleanup = 1
    /\ pc[q] = "done"
    /\ outcome[q] = "reply-emitted"

\* the conditions the claim gives for StopPropagation
StopConditions(p) ==
  /\ calls[p].record = 1
  /\ event[p].type = "group"
  /\ enable_group_voice_recognition
  /\ enable_group_voice_reply = "False"
  /\ CanProcessVoice(event[p])

\* the statements of the gate raised before stop_event was reached
GateRaised(p) ==
  /\ calls[p].raised
  /\ calls[p].stop = 0
  /\ "GroupGate" \in Entries(calls[p].stages)
  /\ "ReplyDecision" \notin Entries(calls[p].stages)

\* what follows a StopPropagation, and where it never happens
StopEndsRun(p) ==
  /\ calls[p].stop <= 1
  /\ event[p].type = "direct" => calls[p].stop = 0
  /\ calls[p].stop = 1 =>
       /\ Ended(p)
       /\ outcome[p] = "recorded-only"
       /\ calls[p].should = 0
       /\ calls[p].llm = 0

\* C16 as stated: StopPropagation is invoked in an invocation if and only
\* if Record was reached, the event is a group event, group-voice-recognition
\* is enabled, group-voice-reply is explicitly false and CanProcessVoice
\* holds; never for a direct event; and after it the run goes to Cleanup
\* without ShouldReply or a reply request.
C16_StopIffConditions ==
  \A p \in Procs :
    /\ StopEndsRun(p)
    /\ Ended(p) => (calls[p].stop = 1 <=> StopConditions(p))

\* C16 amended: the same, except that an unexpected error raised by the
\* gate's own statements before stop_event ends the run as error without
\* StopPropagation although the conditions hold.
C16_StopIffConditionsAndNoRaise ==
  \A p \in Procs :
    /\ StopEndsRun(p)
    /\ Ended(p) =>
         (calls[p].stop = 1 <=> (StopConditions(p) /\ ~GateRaised(p)))
    /\ GateRaised(p) => outcome[p] = "error"

C16_Witness ==
  \E p \in Procs :
    /\ pc[p] = "done"
    /\ StopConditions(p)
    /\ calls[p].recordRaised
    /\ calls[p].stop = 1
    /\ calls[p].cleanup = 1

\* C17: the store loses no update under concurrent invocations: after an
\* invocation has touched its session at time t, a lookup finds the session
\* with a time not before t, unless the sweep of some invocation ran at a
\* time later than t + maxAge; an entry of age at most maxAge is never swept.
C17_NoLostTouch ==
  \A p \in Procs :
    calls[p].touchTime # Absent =>
      LET look == GetSessionStatistics(last_decision_time,
                                       event[p].session, now) IN
      IF look.found
        THEN look.last >= calls[p].touchTime /\ look.since >= 0
        ELSE \E q \in Procs :
               /\ calls[q].sweepTime # Absent
               /\ calls[q].sweepTime > calls[p].touchTime + DefaultMaxAge

C17_Witness ==
  \E p \in Procs, q \in Procs :
    /\ p # q
    /\ pc[p] = "emit"
    /\ calls[p].touchTime # Absent
    /\ ~GetSessionStatistics(last_decision_time, event[p].session, now).found
    /\ calls[q].sweepTime > calls[p].touchTime + DefaultMaxAge

\* one service call or clock step, seen from the entry of session s
EntryStep(s) ==
  /\ (last_decision_time[s] # Absent /\ last_decision_time'[s] # Absent) =>
       last_decision_time'[s] >= last_decision_time[s]
  /\ (last_decision_time[s] = Absent /\ last_decision_time'[s] # Absent) =>
       /\ lastOp'.op = "should_reply"
       /\ lastOp'.sid = s
       /\ s # EmptySid
       /\ last_decision_time'[s] = now
  /\ (last_decision_time[s] # Absent /\ last_decision_time'[s] = Absent) =>
       /\ lastOp'.op = "sweep"
       /\ lastOp'.time - last_decision_time[s] > lastOp'.maxAge

\* C18: with a clock that never goes back, the time of a session that stays
\* in the store never decreases; an entry appears only through a ShouldReply
\* call for that non-empty session, disappears only through a sweep that
\* finds its age above maxAge, and the empty session never has an entry.
C18_EntryLifecycle ==
  /\ [](last_decision_time[EmptySid] = Absent)
  /\ [][now' >= now /\ \A s \in AllSids : EntryStep(s)]_vars

C18_Witness ==
  /\ lastOp.op = "should_reply"
  /\ lastOp.sid = "s2"
  /\ lastOp.before["s2"] # Absent
  /\ lastOp.before["s2"] < last_decision_time["s2"]
  /\ last_decision_time["s1"] = Absent

\* C19: every execution of Cleanup does both of its jobs: the temporary
\* file of the invocation is released and the sweep with the default maxAge
\* of 3600 seconds has run, so that no entry older than 3600 seconds at
\* that time is left in the store.
C19_CleanupDoesBoth ==
  \A p \in Procs :
    calls[p].cleanup = 1 =>
      /\ p \notin temp_files
      /\ calls[p].sweep = 1
      /\ \A s \in AllSids :
           last_decision_time[s] # Absent =>
             calls[p].sweepTime - last_decision_time[s] <= DefaultMaxAge

\* C20: when ReplyEmit is reached and no LLM provider is configured, the
\* invocation ends with outcome error: no reply request is made, nothing
\* is raised or leaves the pipeline, and Cleanup still runs.
C20_NoProvider ==
  \A p \in Procs :
    calls[p].emitRes = "no_provider" =>
      /\ Ended(p)
      /\ outcome[p] = "error"
      /\ calls[p].llm = 0
      /\ ~calls[p].raised
      /\ ~calls[p].escaped
      /\ calls[p].verdict = "true"
      /\ pc[p] = "done" => calls[p].cleanup = 1

C20_Witness ==
  \E p \in Procs :
    /\ pc[p] = "done"
    /\ calls[p].emitRes = "no_provider"
    /\ outcome[p] = "error"
    /\ calls[p].cleanup = 1
    /\ calls[p].llm = 0

\* the step in which the history store raises inside Record: the invocation
\* is not ended, nothing is written to the history, and GroupGate is next
RecordRaiseStep(p) ==
  (~calls[p].recordRaised /\ calls'[p].recordRaised) =>
    /\ pc'[p] = "groupgate"
    /\ outcome'[p] = "none"
    /\ ~calls'[p].raised
    /\ calls'[p].append = 0
    /\ conversations' = conversations

\* an invocation whose Record stage raised goes through the later stages as
\* one whose Record stage succeeded does
RecordRaiseGoesOn(p) ==
  calls[p].recordRaised =>
    /\ calls[p].append = 0
    /\ pc[p] \in {"groupgate", "replydecision", "emit", "cleanup", "done"}
    /\ pc[p] # "groupgate" =>
         /\ Len(calls[p].stages) >= 4
         /\ calls[p].stages[4] = "GroupGate"
    /\ (pc[p] = "done" /\ ~calls[p].raised) =>
         IF GroupGateStops(event[p])
           THEN outcome[p] = "recorded-only" /\ calls[p].stop = 1
           ELSE IF ~ReplyAttempted(event[p])
             THEN outcome[p] = "reply-not-attempted"
             ELSE /\ calls[p].should = 1
                  /\ calls[p].verdict = "true" =>
                       /\ calls[p].emitRes # "uncalled"
                       /\ calls[p].emitRes = "request" =>
                            /\ calls[p].llm = 1
                            /\ outcome[p] = "reply-emitted"

\* C21: an error raised by the history store while Record reads, creates or
\* updates the conversation does not end the invocation: it is caught inside
\* Record, the pipeline continues to GroupGate and, when their conditions
\* hold, to ReplyDecision and ReplyEmit, so a reply can be requested for a
\* transcript that was not written to history.
C21_RecordFailureGoesOn ==
  /\ [](\A p \in Procs : RecordRaiseGoesOn(p))
  /\ [][\A p \in Procs : RecordRaiseStep(p)]_vars

C21_Witness ==
  \E p \in Procs :
    /\ pc[p] = "done"
    /\ calls[p].recordRaised
    /\ calls[p].append = 0
    /\ calls[p].llm = 1
    /\ outcome[p] = "reply-emitted"
====
